---- MODULE Spec2Model ----
(***************************************************************************)
(* A model of the two browser programs the repository generates:          *)
(*                                                                         *)
(*   src/main.py     runProcessing: binarization, horizontal dilation and *)
(*                   Zhang-Suen thinning of the mel-spectrogram image;    *)
(*   src/main_f0.py  runCVAlgorithm: the greedy windowed column tracer.   *)
(*                                                                         *)
(* Pixels are the indices y * width + x of the source's flat arrays.  A    *)
(* 0/1 mask is held as the set of the indices whose element is 1, and     *)
(* At(m, i) is its element i; the image is held as the function from its  *)
(* non-black pixels to their gray value, and Gray(d, i) is its element i. *)
(* Intensities and thresholds are integers: main.py compares the 0..255   *)
(* red channel with parseInt(slider), and main_f0.py compares k / 255.0   *)
(* with parseInt(slider) / 255.0, which orders as the integers k do.      *)
(***************************************************************************)
EXTENDS Integers, Sequences, FiniteSets

VARIABLES
    \* ---- src/main.py, runProcessing ----
    width,          \* cOrg.width
    height,         \* cOrg.height
    data,           \* frame.data: the gray value of the pixels of canvasOrg
    threshold,      \* parseInt(sliderThresh.value)
    hBias,          \* parseInt(sliderBias.value)
    binaryMap,      \* the working mask, 0 or 1 per pixel
    pixelsRemoved,  \* the loop flag
    iterCount,      \* the iteration counter
    pc,             \* position in runProcessing
    startMap,       \* history: the mask the thinning loop started from
    passMarked,     \* history: markers.length summed over the current pass
    run,            \* history: 1 for the first thinning, 2 for the re-thinning
    firstMap,       \* history: the mask the first thinning returned
    firstCount,     \* history: iterCount when the first thinning ended
    \* ---- src/main_f0.py, runCVAlgorithm ----
    specData,       \* specData[y][x]: the spectrogram, row 0 on top
    f0_threshold,   \* parseInt(sliderThresh.value), in 1/255 units
    maxJump,        \* parseInt(sliderPenalty.value)
    searchWindow,   \* parseInt(sliderWindow.value)
    f0_x,           \* the column the for loop is at
    prevY,          \* the row of the previous column, -1 for none
    started,        \* whether the canvas sub-path has a current point
    segments,       \* the canvas path: <<"moveTo" or "lineTo", x, row>>
    f0_pc,          \* position in runCVAlgorithm
    path,           \* history: bestY of every column scanned, -1 for none
    searched,       \* history: <<searchStart, searchEnd>> of every column scanned
    carried         \* history: the run before this one ended on a detection,
                    \* with another jump penalty than this run's

mainVars == <<width, height, data, threshold, hBias, binaryMap, pixelsRemoved, iterCount, pc,
              startMap, passMarked, run, firstMap, firstCount>>
f0Vars == <<specData, f0_threshold, maxJump, searchWindow, f0_x, prevY, started,
            segments, f0_pc, path, searched, carried>>
vars == <<mainVars, f0Vars>>

-----------------------------------------------------------------------------
(* Sizes.  The canvas has the size of the image: 128 rows (n_mels) and a   *)
(* column per frame, at most 1200.  The whole of runProcessing is run on   *)
(* images of SmallWidth x InputHeight pixels; the thinning loop is run on  *)
(* the masks of a SmallWidth x SmallHeight canvas, where MaxBorder bounds  *)
(* the number of foreground pixels on the outer ring, and on one mask of a *)
(* canvas of the source's height, which needs more passes than the cap     *)
(* allows.                                                                 *)

maxIters == 100
SmallWidth == 5
SmallHeight == 5
InputHeight == 3
LargeWidth == 130
LargeHeight == 128
MaxBorder == 1

Pixels == 0 .. (width * height - 1)
Interior == {y * width + x : x \in 1 .. (width - 2), y \in 1 .. (height - 2)}
Border == Pixels \ Interior

\* The subsets of S with at most k elements.
RECURSIVE SubsetsUpTo(_, _)
SubsetsUpTo(S, k) ==
    IF k = 0 THEN {{}}
    ELSE LET P == SubsetsUpTo(S, k - 1)
         IN  P \cup {s \cup {e} : s \in P, e \in S}

Bit(b) == IF b THEN 1 ELSE 0

\* Element i of a mask and of the image.
At(m, i) == Bit(i \in m)
Gray(d, i) == IF i \in DOMAIN d THEN d[i] ELSE 0

-----------------------------------------------------------------------------
(* The 8 neighbours of (x, y), clockwise from north, and the Zhang-Suen   *)
(* counts, as the two scans compute them.                                  *)

p2(m, x, y) == At(m, (y - 1) * width + x)
p3(m, x, y) == At(m, (y - 1) * width + x + 1)
p4(m, x, y) == At(m, y * width + x + 1)
p5(m, x, y) == At(m, (y + 1) * width + x + 1)
p6(m, x, y) == At(m, (y + 1) * width + x)
p7(m, x, y) == At(m, (y + 1) * width + x - 1)
p8(m, x, y) == At(m, y * width + x - 1)
p9(m, x, y) == At(m, (y - 1) * width + x - 1)

A(m, x, y) ==
      Bit(p2(m, x, y) = 0 /\ p3(m, x, y) = 1) + Bit(p3(m, x, y) = 0 /\ p4(m, x, y) = 1)
    + Bit(p4(m, x, y) = 0 /\ p5(m, x, y) = 1) + Bit(p5(m, x, y) = 0 /\ p6(m, x, y) = 1)
    + Bit(p6(m, x, y) = 0 /\ p7(m, x, y) = 1) + Bit(p7(m, x, y) = 0 /\ p8(m, x, y) = 1)
    + Bit(p8(m, x, y) = 0 /\ p9(m, x, y) = 1) + Bit(p9(m, x, y) = 0 /\ p2(m, x, y) = 1)

B(m, x, y) ==
    p2(m, x, y) + p3(m, x, y) + p4(m, x, y) + p5(m, x, y)
  + p6(m, x, y) + p7(m, x, y) + p8(m, x, y) + p9(m, x, y)

\* Variant: the transition count A is not tested.
Marked1NoA(m, x, y) ==
    /\ At(m, y * width + x) = 1
    /\ B(m, x, y) >= 2 /\ B(m, x, y) <= 6
    /\ p2(m, x, y) * p4(m, x, y) * p6(m, x, y) = 0
    /\ p4(m, x, y) * p6(m, x, y) * p8(m, x, y) = 0

\* The test of Step 1 (m1 = p2*p4*p6, m2 = p4*p6*p8).
Marked1(m, x, y) ==
    /\ At(m, y * width + x) = 1
    /\ A(m, x, y) = 1
    /\ B(m, x, y) >= 2 /\ B(m, x, y) <= 6
    /\ p2(m, x, y) * p4(m, x, y) * p6(m, x, y) = 0
    /\ p4(m, x, y) * p6(m, x, y) * p8(m, x, y) = 0

\* The test of Step 2 (m1 = p2*p4*p8, m2 = p2*p6*p8).
Marked2(m, x, y) ==
    /\ At(m, y * width + x) = 1
    /\ A(m, x, y) = 1
    /\ B(m, x, y) >= 2 /\ B(m, x, y) <= 6
    /\ p2(m, x, y) * p4(m, x, y) * p8(m, x, y) = 0
    /\ p2(m, x, y) * p6(m, x, y) * p8(m, x, y) = 0

\* Variant: the scan of a row runs to x = width-1.
ScanXsToEdge == 1 .. (width - 1)

\* The range of both scans: for y = 1 .. height-2, for x = 1 .. width-2.
ScanXs == 1 .. (width - 2)
ScanYs == 1 .. (height - 2)

\* markers after the scan of Step 1 / Step 2 over m (the order of the list
\* does not matter: every marked pixel is cleared).
Markers1(m) ==
    {c[2] * width + c[1] : c \in {d \in ScanXs \X ScanYs : Marked1(m, d[1], d[2])}}
Markers2(m) ==
    {c[2] * width + c[1] : c \in {d \in ScanXs \X ScanYs : Marked2(m, d[1], d[2])}}

\* Variant: the survivors are written into a fresh map without testing m.
ClearedIntoFresh(m, markers) == Pixels \ markers

\* for (i < markers.length) binaryMap[markers[i]] = 0
Cleared(m, markers) == m \ markers

\* if (markers.length > 0) pixelsRemoved = true, after Step 1 (the flag was
\* reset at the top of the pass) and after Step 2.
RemovedAfterStep1(markers) == markers # {}
\* Variant: Step 2 overwrites the flag instead of only raising it.
RemovedByStep2Only(removed, markers) == markers # {}

RemovedAfterStep2(removed, markers) == removed \/ markers # {}

\* Variant: the cap test is off by one.
LoopContinuesShort(removed, count) == removed /\ count < maxIters - 1

\* The test of the while loop.
LoopContinues(removed, count) == removed /\ count < maxIters

-----------------------------------------------------------------------------
(* Binarization and horizontal dilation.                                   *)

\* binaryMap[i/4] = (val > threshold) ? 1 : 0
Binarized(d, t) == {i \in Pixels : Gray(d, i) > t}

\* Variant: the bounds of the row are not tested.
InRowUnchecked(nx) == TRUE

\* nx >= 0 && nx < width
InRow(nx) == nx >= 0 /\ nx < width

\* enhancedMap: every pixel (nx, y) that some white pixel (x, y) of m reaches
\* with nx = x + k, -r <= k <= r.
Enhanced(m, r) ==
    UNION {{(i \div width) * width + ((i % width) + k) :
               k \in {j \in (0 - r) .. r : InRow((i % width) + j)}}
           : i \in {j \in Pixels : At(m, j) = 1}}

\* if (hBias > 0) { ... binaryMap = enhancedMap }
Dilated(m, r) == IF r > 0 THEN Enhanced(m, r) ELSE m

-----------------------------------------------------------------------------
(* Inputs.                                                                 *)

\* Gray values and thresholds are 0 .. 255; the algorithms only compare them,
\* so the inputs take two gray values above black and the thresholds that
\* lie below, between and at them.
White == 255
BrightGrays == {100, 200}
Thresholds == {0, 100, 200}
MaxBright == 2     \* input images have at most MaxBright non-black pixels
MaxBias == 2       \* the bias slider is 0 .. MaxBias

\* The black-and-white image of a mask.
ImageOf(m) == [i \in m |-> White]

\* A two-pixel-wide diagonal band that runs down the large canvas from row 2
\* and turns back up at the bottom.
BandRow(i) ==
    LET span == LargeHeight - 5
        r == i % (2 * span)
    IN  2 + (IF r <= span THEN r ELSE 2 * span - r)
Band == {BandRow(i) * LargeWidth + 2 + i + d : i \in 0 .. (LargeWidth - 6), d \in {0, 1}}


-----------------------------------------------------------------------------
(* runProcessing.                                                          *)

\* The other page is not open.
IdleF0 ==
    /\ specData = <<>>
    /\ f0_threshold = 0
    /\ maxJump = 0
    /\ searchWindow = 1
    /\ f0_x = 0
    /\ prevY = -1
    /\ started = FALSE
    /\ segments = <<>>
    /\ f0_pc = "closed"
    /\ path = <<>>
    /\ searched = <<>>
    /\ carried = FALSE

\* The page after the image has loaded, with the bias slider at one of
\* biases: init() calls runProcessing.
PageLoads(biases) ==
    /\ width = SmallWidth
    /\ height = InputHeight
    \* images: at most MaxBright pixels above 0, each a bright gray
    /\ \E S \in SubsetsUpTo(Pixels, MaxBright) :
           \E lv \in [S -> BrightGrays] : data = lv
    /\ threshold \in Thresholds
    /\ hBias \in biases
    /\ binaryMap = {}
    /\ pixelsRemoved = TRUE
    /\ iterCount = 0
    /\ pc = "binarize"
    /\ startMap = {}
    /\ passMarked = 0
    /\ run = 1
    /\ firstMap = {}
    /\ firstCount = 0
    /\ IdleF0

\* biasSlider has min 0.
Init == PageLoads(0 .. MaxBias)

\* runProcessing at the head of the thinning loop, for the mask m of a
\* black-and-white image with the threshold below white and no bias.
ThinStarts(m) ==
    /\ startMap = m
    /\ binaryMap = m
    /\ data = ImageOf(m)
    /\ threshold = 0
    /\ hBias = 0
    /\ pixelsRemoved = TRUE
    /\ iterCount = 0
    /\ pc = "while"
    /\ passMarked = 0
    /\ run = 1
    /\ firstMap = m
    /\ firstCount = 0
    /\ IdleF0

\* masks on the small canvas: any interior, at most MaxBorder foreground
\* pixels on the ring
InitThin ==
    /\ width = SmallWidth
    /\ height = SmallHeight
    /\ \E I \in SUBSET Interior, R \in SubsetsUpTo(Border, MaxBorder) :
           ThinStarts(I \cup R)

\* the band on the large canvas
InitBand ==
    /\ width = LargeWidth
    /\ height = LargeHeight
    /\ ThinStarts(Band)

\* 1. the binary matrix.
Binarize ==
    /\ pc = "binarize"
    /\ binaryMap' = Binarized(data, threshold)
    /\ pc' = "dilate"
    /\ UNCHANGED <<width, height, data, threshold, hBias, pixelsRemoved, iterCount, startMap,
                   passMarked, run, firstMap, firstCount,
                   f0Vars>>

\* 2. the horizontal enhancement, and the loop's variables.
Dilate ==
    /\ pc = "dilate"
    /\ binaryMap' = Dilated(binaryMap, hBias)
    /\ startMap' = binaryMap'
    /\ pixelsRemoved' = TRUE
    /\ iterCount' = 0
    /\ passMarked' = 0
    /\ pc' = "while"
    /\ UNCHANGED <<width, height, data, threshold, hBias, run, firstMap, firstCount,
                   f0Vars>>

\* The loop test passes; Step 1 of the pass.
LoopStep1 ==
    /\ pc = "while"
    /\ LoopContinues(pixelsRemoved, iterCount)
    /\ \E markers \in {Markers1(binaryMap)} :
           /\ pixelsRemoved' = RemovedAfterStep1(markers)
           /\ binaryMap' = Cleared(binaryMap, markers)
           /\ passMarked' = Cardinality(markers)
    /\ iterCount' = iterCount + 1
    /\ pc' = "step2"
    /\ UNCHANGED <<width, height, data, threshold, hBias, startMap, run, firstMap, firstCount,
                   f0Vars>>

\* Step 2 of the pass.
LoopStep2 ==
    /\ pc = "step2"
    /\ \E markers \in {Markers2(binaryMap)} :
           /\ pixelsRemoved' = RemovedAfterStep2(pixelsRemoved, markers)
           /\ binaryMap' = Cleared(binaryMap, markers)
           /\ passMarked' = passMarked + Cardinality(markers)
    /\ pc' = "while"
    /\ UNCHANGED <<width, height, data, threshold, hBias, iterCount, startMap, run, firstMap, firstCount,
                   f0Vars>>

\* The loop test fails; 4. the result is drawn and the status written.
LoopExit ==
    /\ pc = "while"
    /\ ~LoopContinues(pixelsRemoved, iterCount)
    /\ pc' = "done"
    /\ firstMap' = IF run = 1 THEN binaryMap ELSE firstMap
    /\ firstCount' = IF run = 1 THEN iterCount ELSE firstCount
    /\ UNCHANGED <<width, height, data, threshold, hBias, binaryMap, pixelsRemoved, iterCount,
                   startMap, passMarked, run,
                   f0Vars>>

\* The thinning loop again, on the mask it returned.
Rethin ==
    /\ pc = "done"
    /\ run = 1
    /\ run' = 2
    /\ startMap' = binaryMap
    /\ pixelsRemoved' = TRUE
    /\ iterCount' = 0
    /\ passMarked' = 0
    /\ pc' = "while"
    /\ UNCHANGED <<width, height, data, threshold, hBias, binaryMap, firstMap, firstCount,
                   f0Vars>>

\* The Update / Run button: runProcessing again, with the sliders as they are.
Run ==
    /\ pc = "done"
    /\ threshold' \in Thresholds
    /\ hBias' \in 0 .. MaxBias
    /\ binaryMap' = {}
    /\ pixelsRemoved' = TRUE
    /\ iterCount' = 0
    /\ pc' = "binarize"
    /\ startMap' = {}
    /\ passMarked' = 0
    /\ firstMap' = {}
    /\ firstCount' = 0
    /\ UNCHANGED <<width, height, data, run, f0Vars>>

Next == Binarize \/ Dilate \/ LoopStep1 \/ LoopStep2 \/ LoopExit \/ Run
Spec == Init /\ [][Next]_vars

NextThin == LoopStep1 \/ LoopStep2 \/ LoopExit \/ Rethin
SpecThin == InitThin /\ [][NextThin]_vars

\* The thinning loop on the small masks and on the band.
InitThinCap == InitThin \/ InitBand
SpecThinCap == InitThinCap /\ [][NextThin]_vars

\* runProcessing is synchronous: once called it runs to its end.
FairThinCap == SpecThinCap /\ WF_vars(NextThin)

-----------------------------------------------------------------------------
(* runCVAlgorithm (src/main_f0.py).                                        *)

f0_width == 3      \* const width, scaled down
f0_height == 4     \* const height (n_mels), scaled down
MaxWindow == 2     \* the window slider is 1 .. MaxWindow
MaxJump == 1       \* the penalty slider is 0 .. MaxJump
MaxCells == 3      \* spectrograms have at most MaxCells cells above 0

Max(a, b) == IF a > b THEN a ELSE b
Min(a, b) == IF a < b THEN a ELSE b

\* Variant: the window starts one row higher.
SearchStartWide(prev, w) == IF prev # -1 THEN Max(0, prev - w - 1) ELSE 0

\* Variant: the window ends with the row prevY + searchWindow.
SearchEndInclusive(prev, w) == IF prev # -1 THEN Min(f0_height, prev + w + 1) ELSE f0_height

\* searchStart and searchEnd of a column, from prevY and the window.
SearchStart(prev, w) == IF prev # -1 THEN Max(0, prev - w) ELSE 0
SearchEnd(prev, w) == IF prev # -1 THEN Min(f0_height, prev + w) ELSE f0_height

\* val > threshold
AboveThreshold(val, t) == val > t

\* Variant: >= for >.
BetterOrEqual(score, maxEnergy) == score >= maxEnergy

\* score > maxEnergy, with score = val: the penalty line is commented out.
Better(score, maxEnergy) == score > maxEnergy

\* for (y = searchStart; y < searchEnd; y++): bestY after the scan of column
\* cx from row y on, with bestY and maxEnergy as they are before row y.
RECURSIVE ScanColumn(_, _, _, _, _, _, _)
ScanColumn(sd, cx, y, end, t, bestY, maxEnergy) ==
    IF y >= end THEN bestY
    ELSE LET val == sd[y][cx]
         IN  IF AboveThreshold(val, t) /\ Better(val, maxEnergy)
             THEN ScanColumn(sd, cx, y + 1, end, t, y, val)
             ELSE ScanColumn(sd, cx, y + 1, end, t, bestY, maxEnergy)

\* bestY of column cx: let bestY = -1, maxEnergy = -1, then the scan.
BestY(sd, cx, prev, w, t) ==
    ScanColumn(sd, cx, SearchStart(prev, w), SearchEnd(prev, w), t, -1, -1)

\* Variants: the signal-lost branch leaves prevY, or started, as it is.
PrevAfterKept(bestY) == IF bestY # -1 THEN bestY ELSE prevY
StartedAfterKept(bestY) == bestY # -1 \/ started

\* prevY and started after a column: bestY found, or signal lost.
PrevAfter(bestY) == IF bestY # -1 THEN bestY ELSE -1
StartedAfter(bestY) == bestY # -1

\* The canvas call of a column with a detection.
DrawOp(isStarted) == IF isStarted THEN "lineTo" ELSE "moveTo"

\* The spectrogram with value lv[c] at the cells c = <<y, x>> of S, 0 elsewhere.
Cells == (0 .. (f0_height - 1)) \X (0 .. (f0_width - 1))
SpectrogramWith(S, lv) ==
    [y \in 0 .. (f0_height - 1) |->
        [cx \in 0 .. (f0_width - 1) |-> IF <<y, cx>> \in S THEN lv[<<y, cx>>] ELSE 0]]

\* The main.py page is not open.
IdleMain ==
    /\ width = 0
    /\ height = 0
    /\ data = <<>>
    /\ threshold = 0
    /\ hBias = 0
    /\ binaryMap = {}
    /\ pixelsRemoved = FALSE
    /\ iterCount = 0
    /\ pc = "closed"
    /\ startMap = {}
    /\ passMarked = 0
    /\ run = 1
    /\ firstMap = {}
    /\ firstCount = 0

\* Variant: prevY and started live outside the function and are not reset.
RunStartsKeepsTracking ==
    /\ f0_x' = 0
    /\ UNCHANGED <<prevY, started>>
    /\ segments' = <<>>
    /\ path' = <<>>
    /\ searched' = <<>>
    /\ f0_pc' = "scan"

\* The locals of runCVAlgorithm before its for loop.
RunStarts ==
    /\ f0_x' = 0
    /\ prevY' = -1
    /\ started' = FALSE
    /\ segments' = <<>>
    /\ path' = <<>>
    /\ searched' = <<>>
    /\ f0_pc' = "scan"

\* window.onload, with the window slider at one of windows: update() runs
\* the algorithm with the sliders as they are.
TraceLoads(windows) ==
    \* spectrograms: at most MaxCells cells above 0, each a bright gray
    /\ \E S \in SubsetsUpTo(Cells, MaxCells) :
           \E lv \in [S -> BrightGrays] : specData = SpectrogramWith(S, lv)
    /\ f0_threshold \in Thresholds
    /\ maxJump \in 0 .. MaxJump
    /\ searchWindow \in windows
    /\ f0_x = 0
    /\ prevY = -1
    /\ started = FALSE
    /\ segments = <<>>
    /\ path = <<>>
    /\ searched = <<>>
    /\ carried = FALSE
    /\ f0_pc = "scan"
    /\ IdleMain

\* look-window has min 1.
InitTrace == TraceLoads(1 .. MaxWindow)

\* One pass of the for loop over x.
Column ==
    /\ f0_pc = "scan"
    /\ f0_x < f0_width
    /\ LET bestY == BestY(specData, f0_x, prevY, searchWindow, f0_threshold)
       IN  /\ segments' = IF bestY # -1
                          THEN Append(segments, <<DrawOp(started), f0_x, bestY>>)
                          ELSE segments
           /\ started' = StartedAfter(bestY)
           /\ prevY' = PrevAfter(bestY)
           /\ path' = Append(path, bestY)
    /\ searched' = Append(searched, <<SearchStart(prevY, searchWindow),
                                      SearchEnd(prevY, searchWindow)>>)
    /\ f0_x' = f0_x + 1
    /\ UNCHANGED <<specData, f0_threshold, maxJump, searchWindow, f0_pc, carried, mainVars>>

\* The for loop ends: ctx.stroke().
Stroke ==
    /\ f0_pc = "scan"
    /\ f0_x >= f0_width
    /\ f0_pc' = "done"
    /\ UNCHANGED <<specData, f0_threshold, maxJump, searchWindow, f0_x, prevY,
                   started, segments, path, searched, carried, mainVars>>

\* A slider's input event: update() reads the sliders and runs the algorithm.
Update ==
    /\ f0_pc = "done"
    /\ f0_threshold' \in Thresholds
    /\ maxJump' \in 0 .. MaxJump
    /\ searchWindow' \in 1 .. MaxWindow
    /\ RunStarts
    /\ UNCHANGED <<specData, carried, mainVars>>

NextTrace == Column \/ Stroke \/ Update
SpecTrace == InitTrace /\ [][NextTrace]_vars

\* The same event, with the history of the run it ends written down.
UpdateAfterRun ==
    /\ f0_pc = "done"
    /\ f0_threshold' \in Thresholds
    /\ maxJump' \in 0 .. MaxJump
    /\ searchWindow' \in 1 .. MaxWindow
    /\ RunStarts
    /\ carried' = (started /\ maxJump' # maxJump)
    /\ UNCHANGED <<specData, mainVars>>

NextRerun == Column \/ Stroke \/ UpdateAfterRun
SpecRerun == InitTrace /\ [][NextRerun]_vars

\* Either page, loaded with a slider value below the slider's min attribute:
\* the only guard of the ranges is the markup, the scripts parseInt what the
\* slider holds and test nothing.
InvalidBiases == {-1}
InvalidWindows == {-1, 0}
InitUnchecked == PageLoads(InvalidBiases) \/ TraceLoads(InvalidWindows)
NextUnchecked == Next \/ NextTrace
SpecUnchecked == InitUnchecked /\ [][NextUnchecked]_vars

-----------------------------------------------------------------------------
(* Notions the statements about the thinning loop use.                     *)

XOf(i) == i % width
YOf(i) == i \div width

\* The outermost ring of the mask.
Ring == {i \in Pixels : XOf(i) = 0 \/ XOf(i) = width - 1 \/ YOf(i) = 0 \/ YOf(i) = height - 1}

\* The 8 neighbours of a pixel inside the grid.
Neighbours8(i) ==
    {j \in {i - width - 1, i - width, i - width + 1, i - 1, i + 1,
            i + width - 1, i + width, i + width + 1} :
        /\ j \in Pixels
        /\ XOf(j) - XOf(i) \in {-1, 0, 1}}

\* The 8-connected component of the foreground m that holds the pixel i:
\* S grown by the foreground neighbours of its newest pixels F until none
\* is new.
RECURSIVE Grow(_, _, _)
Grown(m, S, new) == Grow(m, S \cup new, new)
Grow(m, S, F) ==
    IF F = {} THEN S
    ELSE Grown(m, S, (UNION {Neighbours8(i) : i \in F} \cap m) \ S)
Component(m, i) == Grow(m, {i}, {i})

\* The 8-connected components of the foreground m.
RECURSIVE Components(_)
ComponentsWith(m, c) == {c} \cup Components(m \ c)
Components(m) ==
    IF m = {} THEN {} ELSE ComponentsWith(m, Component(m, CHOOSE i \in m : TRUE))

InLoop == pc \in {"while", "step2", "done"}

-----------------------------------------------------------------------------
(* C1, as claimed. Thinning the mask a thinning returned returns that     *)
(* mask unchanged, for every mask: when the second run of the loop,        *)
(* started on the result of the first, ends, the working mask is the       *)
(* first run's result.                                                     *)
C1_ThinOfThinIsThin == (pc = "done" /\ run = 2) => binaryMap = firstMap

(* C1, amended. Thinning the mask a thinning returned returns that mask    *)
(* unchanged whenever the first thinning stopped with an iteration count   *)
(* below the cap.                                                          *)
C1_ThinOfConvergedThinIsThin ==
    (pc = "done" /\ run = 2 /\ firstCount < maxIters) => binaryMap = firstMap

\* The second run has ended after a first run that removed pixels and
\* stopped below the cap.
C1_Witness ==
    /\ pc = "done" /\ run = 2
    /\ firstCount < maxIters
    /\ firstMap # DOMAIN data
    /\ binaryMap = firstMap

(* C2. Thinning only removes pixels: in every state of the loop the        *)
(* foreground of the working mask lies inside the mask the loop started    *)
(* from, and no step turns a background pixel into foreground.             *)
C2_Subset == InLoop => \A i \in Pixels : At(binaryMap, i) = 1 => At(startMap, i) = 1
C2_NoPixelAdded == InLoop => \A i \in Pixels : At(binaryMap, i) = 0 => At(binaryMap', i) = 0
C2_ThinOnlyRemoves == [] C2_Subset /\ [][C2_NoPixelAdded]_vars

\* A sub-step has just removed pixels.
C2_Witness == pc = "step2" /\ passMarked > 0 /\ binaryMap # startMap

(* C3. The loop never modifies the outermost ring: every pixel with x = 0, *)
(* x = width-1, y = 0 or y = height-1 has the value it had when the loop   *)
(* started, foreground ring pixels included.                               *)
C3_RingUnchanged == InLoop => \A i \in Ring : At(binaryMap, i) = At(startMap, i)

\* The loop has removed pixels beside a foreground ring pixel that stayed.
C3_Witness ==
    /\ pc = "done" /\ run = 1
    /\ binaryMap # startMap
    /\ \E i \in Ring : At(startMap, i) = 1 /\ At(binaryMap, i) = 1
                        /\ \E j \in Neighbours8(i) : At(startMap, j) = 1 /\ At(binaryMap, j) = 0

(* C4. The loop always terminates, with an iteration count of at most 100. *)
(* It stops exactly when a full pass marked no pixel or the count reached  *)
(* 100: at the loop test after a pass it exits in these two cases and      *)
(* starts another pass otherwise.  When it has stopped with a count below  *)
(* 100, neither sub-step would mark a pixel of the returned mask.          *)
C4_Stopped ==
    /\ iterCount <= maxIters
    /\ pc = "done" => (passMarked = 0 \/ iterCount = maxIters)
    /\ (pc = "done" /\ iterCount < maxIters) =>
           (Markers1(binaryMap) = {} /\ Markers2(binaryMap) = {})
C4_StopsExactly ==
    (pc = "while" /\ iterCount > 0) =>
        IF passMarked = 0 \/ iterCount = maxIters THEN pc' = "done" ELSE pc' = "step2"
C4_LoopTerminates ==
    /\ [] C4_Stopped
    /\ [][C4_StopsExactly]_vars
    /\ (pc = "while") ~> (pc = "done")

\* The loop has stopped at the cap after a pass that still marked pixels.
C4_Witness == pc = "done" /\ run = 1 /\ iterCount = maxIters /\ passMarked > 0

(* C5, as claimed. The skeleton has as many 8-connected components as the  *)
(* mask the loop started from.                                             *)
C5_SameComponentCount ==
    pc = "done" => Cardinality(Components(binaryMap)) = Cardinality(Components(startMap))

(* C5, amended. Thinning never splits a component: two pixels of the       *)
(* skeleton that were 8-connected in the mask the loop started from are    *)
(* 8-connected in the skeleton, so the skeleton has no more components     *)
(* than that mask (it can have fewer: a component can be erased).          *)
C5_NoComponentSplit ==
    pc = "done" =>
        \A before \in {Components(startMap)}, after \in {Components(binaryMap)} :
            /\ \A c \in after : \E d \in before : c = d \cap binaryMap
            /\ Cardinality(after) <= Cardinality(before)

\* The loop has removed pixels from a mask of several components and kept
\* a pixel of each.
C5_Witness ==
    /\ pc = "done" /\ run = 1
    /\ binaryMap # startMap
    /\ Cardinality(Components(startMap)) >= 2
    /\ Cardinality(Components(binaryMap)) = Cardinality(Components(startMap))

-----------------------------------------------------------------------------
(* Notions the statements about the tracer use.  path[k] and searched[k]   *)
(* belong to column k - 1.                                                 *)

Abs(n) == IF n < 0 THEN 0 - n ELSE n
FullRange == <<0, f0_height>>
Scanned == 1 .. Len(path)

\* The rows of column k - 1 the scan looked at, and those above the threshold.
RangeOf(k) == searched[k][1] .. (searched[k][2] - 1)
Candidates(k) == {y \in RangeOf(k) : specData[y][k - 1] > f0_threshold}

(* C6. Two consecutive columns with a detected row have rows that differ   *)
(* by at most searchWindow.                                                *)
C6_ConsecutiveWithinWindow ==
    \A k \in Scanned :
        (k > 1 /\ path[k - 1] # -1 /\ path[k] # -1) =>
            Abs(path[k] - path[k - 1]) <= searchWindow

\* Two consecutive detections as far apart as the window allows, with a
\* cell above the threshold further away in the second column.
C6_Witness ==
    \E k \in Scanned :
        /\ k > 1 /\ path[k - 1] # -1 /\ path[k] # -1
        /\ Abs(path[k] - path[k - 1]) = searchWindow
        /\ \E y \in 0 .. (f0_height - 1) :
               /\ specData[y][k - 1] > f0_threshold
               /\ Abs(y - path[k - 1]) > searchWindow

(* C7. A column with no cell above the threshold in its search range has   *)
(* the entry none, and the column after a none entry is searched over all  *)
(* rows [0, H); only a column right after a detection has a narrower       *)
(* range.                                                                  *)
C7_LossResetsSearch ==
    \A k \in Scanned :
        /\ Candidates(k) = {} => path[k] = -1
        /\ (k > 1 /\ path[k - 1] = -1) => searched[k] = FullRange
        /\ searched[k] # FullRange => (k > 1 /\ path[k - 1] # -1)

\* A detection, a none entry, and then a detection at a row outside the
\* window around the first.
C7_Witness ==
    \E k \in Scanned :
        /\ k > 2 /\ path[k - 2] # -1 /\ path[k - 1] = -1 /\ path[k] # -1
        /\ Abs(path[k] - path[k - 2]) > searchWindow

(* C8. The path never connects across a column without a detection: a     *)
(* lineTo reaches a column only from a detection in the column before it; *)
(* the first detection and the first one after a none entry are a moveTo; *)
(* at the start of every column started holds iff prevY is not -1.        *)
C8_NoLineAcrossNone ==
    /\ started <=> prevY # -1
    /\ \A n \in 1 .. Len(segments) :
           LET op == segments[n][1]
               k == segments[n][2] + 1
           IN  /\ k \in Scanned /\ path[k] = segments[n][3] /\ path[k] # -1
               /\ op = "lineTo" <=> (k > 1 /\ path[k - 1] # -1)
               /\ op = "moveTo" <=> (k = 1 \/ path[k - 1] = -1)
    /\ Len(segments) = Cardinality({k \in Scanned : path[k] # -1})

\* A detection, a none entry and a detection: two sub-paths.
C8_Witness ==
    /\ Len(segments) = 2
    /\ segments[1][1] = "moveTo" /\ segments[2][1] = "moveTo"
    /\ segments[2][2] = segments[1][2] + 2

C10_BinarizedThenDilated ==
    /\ pc = "dilate" => \A i \in Pixels : At(binaryMap, i) = 1 <=> Gray(data, i) > threshold
    /\ InLoop =>
           /\ startMap \subseteq Pixels
           /\ \A i \in Pixels :
                  At(startMap, i) = 1 <=>
                      \E x2 \in 0 .. (width - 1) :
                          /\ Abs(XOf(i) - x2) <= hBias
                          /\ Gray(data, YOf(i) * width + x2) > threshold
           /\ hBias = 0 => startMap = Binarized(data, threshold)

\* A pixel above the threshold in the last column, dilated with a positive
\* radius: its row is filled up to the radius and the next row is not.
C10_Witness ==
    /\ pc = "while" /\ iterCount = 0 /\ hBias > 0
    /\ \E i \in Pixels :
           /\ XOf(i) = width - 1 /\ YOf(i) < height - 1
           /\ Gray(data, i) > threshold
           /\ At(startMap, i - hBias) = 1
           /\ At(startMap, i - hBias - 1) = 0
           /\ At(startMap, i + 1) = 0

-----------------------------------------------------------------------------
RefEntry(sd, t, w, cx, prev) ==
    LET rows == IF prev = -1 THEN 0 .. (f0_height - 1)
                ELSE Max(0, prev - w) .. (Min(f0_height, prev + w) - 1)
        cand == {y \in rows : sd[y][cx] > t}
    IN  IF cand = {} THEN -1
        ELSE CHOOSE y \in cand :
                 \A z \in cand : sd[z][cx] < sd[y][cx] \/ (sd[z][cx] = sd[y][cx] /\ y <= z)
RECURSIVE RefPath(_, _, _, _)
RefPath(sd, t, w, n) ==
    IF n = 0 THEN <<>>
    ELSE LET before == RefPath(sd, t, w, n - 1)
         IN  Append(before,
                    RefEntry(sd, t, w, n - 1, IF n = 1 THEN -1 ELSE before[n - 1]))
C13_HalfOpenWindow ==
    \A k \in Scanned :
        (k > 1 /\ path[k - 1] # -1) =>
            /\ RangeOf(k) = {y \in 0 .. (f0_height - 1) :
                                 /\ y >= path[k - 1] - searchWindow
                                 /\ y <= path[k - 1] + searchWindow - 1}
            /\ path[k] # -1 =>
                   /\ path[k - 1] - path[k] <= searchWindow
                   /\ path[k] - path[k - 1] <= searchWindow - 1
                   /\ searchWindow = 1 => path[k] <= path[k - 1]

\* The row has gone up by searchWindow, and in the next column the only
\* cell above the threshold is searchWindow rows below: the entry is none.
C13_Witness ==
    \E k \in Scanned :
        /\ k > 2 /\ path[k - 2] # -1
        /\ path[k - 1] = path[k - 2] - searchWindow
        /\ path[k] = -1
        /\ {y \in 0 .. (f0_height - 1) : specData[y][k - 1] > f0_threshold}
               = {path[k - 1] + searchWindow}

====
